---- MODULE Spec2Model ----
(***************************************************************************)
(* Model of the genry command line tool (packages/genry/src/bin.ts):       *)
(* class Genry with searchTemplates, loadTemplates, selectTemplate and     *)
(* start, driven by the top-level async function of the file.              *)
(*                                                                         *)
(* One run of the process is one behaviour.  The file system (the files    *)
(* the glob matches and what importing each does), the directories and    *)
(* the configuration are chosen in Init; the user's choice in the picker   *)
(* and the outcome of generate are chosen when they happen.                *)
(*                                                                         *)
(* Steps are delimited by the awaits of the code: everything the code does *)
(* between two awaits is one action.                                       *)
(***************************************************************************)
EXTENDS Integers, Sequences, FiniteSets, TLC

----------------------------------------------------------------------------
(* Bounds *)

\* most files the glob matches
MaxFiles == 2
\* longest array a template file exports
MaxArr == 2

----------------------------------------------------------------------------
(* Values *)

Dirs == {"/proj", "/proj/sub"}
Names == {"A", "B"}
Configs == {"cfgEmpty", "cfgInclude"}
ServerIds == {"undefined", "ipc-1"}

\* Template (./template): only the name distinguishes templates here;
\* two templates of the same name are allowed
Template == [name : Names]
NoTemplate == [name |-> "none"]

SeqUpTo(S, n) == UNION {[1..k -> S] : k \in 0..n}

\* The value of a module's default export: undefined, null, one Template
\* or an array of Templates (f.default as Template | Template[]).
DefaultExport ==
    {[tag |-> "undefined", obj |-> NoTemplate, arr |-> <<>>],
     [tag |-> "null", obj |-> NoTemplate, arr |-> <<>>]}
    \cup {[tag |-> "object", obj |-> t, arr |-> <<>>] : t \in Template}
    \cup {[tag |-> "array", obj |-> NoTemplate, arr |-> a] :
             a \in SeqUpTo(Template, MaxArr)}

\* A template file: importing it fulfils with its module, or rejects
\* (the module throws while loading, or cannot be compiled or resolved).
TemplateFile ==
    {[imp |-> "ok", def |-> d] : d \in DefaultExport}
    \cup {[imp |-> "reject",
           def |-> [tag |-> "undefined", obj |-> NoTemplate, arr |-> <<>>]]}

----------------------------------------------------------------------------
(* Pure parts of loadTemplates *)

\* Array.isArray(t)
IsArray(t) == t.tag = "array"

\* the predicate of .filter((v) => v): JavaScript truthiness; undefined
\* and null are falsy, every object and every array (also []) is truthy
Truthy(v) == v.tag \notin {"undefined", "null"}

\* Array.isArray(t) ? t : [t]
AsArray(t) == IF IsArray(t) THEN t.arr ELSE <<t.obj>>

\* faulty variant: each contribution is put in front of the accumulator
RECURSIVE ReducePrepend(_, _)
ReducePrepend(vs, acc) ==
    IF vs = <<>> THEN acc
    ELSE ReducePrepend(Tail(vs), AsArray(Head(vs)) \o acc)

\* .reduce((acc, t) => acc.concat(Array.isArray(t) ? t : [t]), [])
RECURSIVE Reduce(_, _)
Reduce(vs, acc) ==
    IF vs = <<>> THEN acc
    ELSE Reduce(Tail(vs), acc \o AsArray(Head(vs)))

\* the value of the expression assigned to `templates`, from the array
\* Promise.all fulfils with
FlattenTemplates(values) == Reduce(SelectSeq(values, Truthy), <<>>)

\* Promise.all over the import promises: rejected as soon as one of them
\* is rejected, fulfilled once all are fulfilled, pending otherwise
PromiseAll(states) ==
    IF \E i \in DOMAIN states : states[i] = "rejected" THEN "rejected"
    ELSE IF \A i \in DOMAIN states : states[i] = "fulfilled" THEN "fulfilled"
    ELSE "pending"

----------------------------------------------------------------------------
(* State *)

VARIABLES
    files,        \* what the glob matches under packagePath, in glob order
    packagePath,  \* Genry.packagePath
    config,       \* Genry.config
    path,         \* Genry.path
    serverId,     \* vscodeExtension.serverId
    terminalId,   \* vscodeExtension.terminalId
    cwd0,         \* process.cwd() when the run starts
    cwd,          \* process.cwd()
    startedCwd,   \* loadTemplates' local startedCwd
    chdirs,       \* the process.chdir calls made so far, in order
    imports,      \* state of the promise of each issued import
    loadOutcome,  \* "none", "returned" or "threw": how loadTemplates ended
    templates,    \* start's local `templates`
    spinner,      \* what the spinner shows
    emitted,      \* the vscodeExtension.emit calls so far, in order
    pickerCalls,  \* the selectTemplate calls so far
    picked,       \* "none", "cancelled" or "selected": what the picker gave
    template,     \* start's local `template`
    genCalls,     \* the template.generate calls so far
    genResult,    \* "none", "pending", "resolved" or "rejected"
    pc,           \* where the run is
    outcome       \* "running", "ok" (promise of start fulfilled) or "failed"

vars == <<files, packagePath, config, path, serverId, terminalId, cwd0, cwd,
          startedCwd, chdirs, imports, loadOutcome, templates, spinner,
          emitted, pickerCalls, picked, template, genCalls, genResult, pc,
          outcome>>

\* fields set by the constructor and the file system, never assigned later
fixed == <<files, packagePath, config, path, serverId, terminalId, cwd0>>

\* The state once `new Genry(...)` has returned and start() is about to run.
Init ==
    /\ files \in SeqUpTo(TemplateFile, MaxFiles)
    /\ packagePath \in Dirs
    /\ config \in Configs
    /\ path \in Dirs
    /\ serverId \in ServerIds
    /\ terminalId = "undefined"
    /\ cwd0 \in Dirs
    /\ cwd = cwd0
    /\ startedCwd = "unset"
    /\ chdirs = <<>>
    /\ imports = <<>>
    /\ loadOutcome = "none"
    /\ templates = <<>>
    /\ spinner = "idle"
    /\ emitted = <<>>
    /\ pickerCalls = <<>>
    /\ picked = "none"
    /\ template = NoTemplate
    /\ genCalls = <<>>
    /\ genResult = "none"
    /\ pc = "start"
    /\ outcome = "running"

----------------------------------------------------------------------------
(* Actions *)

\* start() calls searchTemplates(), which starts the spinner and awaits
\* the glob.
SearchTemplatesBegin ==
    /\ pc = "start"
    /\ spinner' = "Loading templates"
    /\ pc' = "glob"
    /\ UNCHANGED <<fixed, cwd, startedCwd, chdirs, imports, loadOutcome,
                   templates, emitted, pickerCalls, picked, template,
                   genCalls, genResult, outcome>>

\* faulty variant: the empty match is reported like a non-empty one
GlobNotFoundAsFound ==
    /\ pc = "glob"
    /\ Len(files) = 0
    /\ spinner' = "Prepare n templates"
    /\ emitted' = Append(emitted, "found")
    /\ templates' = <<>>
    /\ pc' = "searched"
    /\ UNCHANGED <<fixed, cwd, startedCwd, chdirs, imports, loadOutcome,
                   pickerCalls, picked, template, genCalls, genResult,
                   outcome>>

\* The glob resolves with no file: searchTemplates warns, emits "notFound"
\* and returns [].
GlobNotFound ==
    /\ pc = "glob"
    /\ Len(files) = 0
    /\ spinner' = "Templates not found"
    /\ emitted' = Append(emitted, "notFound")
    /\ templates' = <<>>
    /\ pc' = "searched"
    /\ UNCHANGED <<fixed, cwd, startedCwd, chdirs, imports, loadOutcome,
                   pickerCalls, picked, template, genCalls, genResult,
                   outcome>>

\* The glob resolves with files: searchTemplates emits "found" and calls
\* loadTemplates, which runs up to its await: it records the working
\* directory, changes it to packagePath and issues every import.
\* import() never throws synchronously (a failing import is a rejected
\* promise), so the catch of the map callback is not taken and every entry
\* of the array given to Promise.all is the promise of an import.
GlobFound ==
    /\ pc = "glob"
    /\ Len(files) > 0
    /\ spinner' = (IF Len(files) = 1 THEN "Prepare template"
                                     ELSE "Prepare n templates")
    /\ emitted' = Append(emitted, "found")
    /\ startedCwd' = cwd
    /\ cwd' = packagePath
    /\ chdirs' = Append(chdirs, packagePath)
    /\ imports' = [i \in 1..Len(files) |-> "pending"]
    /\ pc' = "loading"
    /\ UNCHANGED <<fixed, loadOutcome, templates, pickerCalls, picked,
                   template, genCalls, genResult, outcome>>

\* One import settles; imports settle in any order, and go on settling
\* after loadTemplates has thrown.
ImportSettle(i) ==
    /\ imports[i] = "pending"
    /\ imports' = [imports EXCEPT ![i] =
                      IF files[i].imp = "ok" THEN "fulfilled" ELSE "rejected"]
    /\ UNCHANGED <<fixed, cwd, startedCwd, chdirs, loadOutcome, templates,
                   spinner, emitted, pickerCalls, picked, template, genCalls,
                   genResult, pc, outcome>>

\* faulty variant: the working directory is not restored
LoadReturnNoRestore ==
    /\ pc = "loading"
    /\ PromiseAll(imports) = "fulfilled"
    /\ templates' = FlattenTemplates([i \in 1..Len(files) |-> files[i].def])
    /\ spinner' = "Templates loaded"
    /\ loadOutcome' = "returned"
    /\ pc' = "searched"
    /\ UNCHANGED <<fixed, cwd, chdirs, startedCwd, imports, emitted,
                   pickerCalls, picked, template, genCalls, genResult,
                   outcome>>

\* Promise.all fulfilled: loadTemplates flattens the default exports,
\* restores the working directory and returns; searchTemplates returns the
\* same array to start.
LoadReturn ==
    /\ pc = "loading"
    /\ PromiseAll(imports) = "fulfilled"
    /\ templates' = FlattenTemplates([i \in 1..Len(files) |-> files[i].def])
    /\ cwd' = startedCwd
    /\ chdirs' = Append(chdirs, startedCwd)
    /\ spinner' = "Templates loaded"
    /\ loadOutcome' = "returned"
    /\ pc' = "searched"
    /\ UNCHANGED <<fixed, startedCwd, imports, emitted, pickerCalls, picked,
                   template, genCalls, genResult, outcome>>

\* Promise.all rejected: the await in loadTemplates throws.  Nothing in
\* loadTemplates, searchTemplates, start or the top-level function catches
\* it, so the rest of loadTemplates is skipped and the run fails.
LoadThrow ==
    /\ pc = "loading"
    /\ PromiseAll(imports) = "rejected"
    /\ loadOutcome' = "threw"
    /\ pc' = "done"
    /\ outcome' = "failed"
    /\ UNCHANGED <<fixed, cwd, startedCwd, chdirs, imports, templates,
                   spinner, emitted, pickerCalls, picked, template, genCalls,
                   genResult>>

\* faulty variant: the picker is shown whatever was found
HasTemplatesAlways(ts) == TRUE

\* if (templates.length)
HasTemplates(ts) == Len(ts) # 0

\* searchTemplates returned nothing: start returns.
StartNoTemplates ==
    /\ pc = "searched"
    /\ ~HasTemplates(templates)
    /\ pc' = "done"
    /\ outcome' = "ok"
    /\ UNCHANGED <<fixed, cwd, startedCwd, chdirs, imports, loadOutcome,
                   templates, spinner, emitted, pickerCalls, picked,
                   template, genCalls, genResult>>

\* start calls selectTemplate(templates), which awaits the prompt.
SelectTemplateCall ==
    /\ pc = "searched"
    /\ HasTemplates(templates)
    /\ pickerCalls' = Append(pickerCalls, [choices |-> templates, cwd |-> cwd])
    /\ pc' = "picking"
    /\ UNCHANGED <<fixed, cwd, startedCwd, chdirs, imports, loadOutcome,
                   templates, spinner, emitted, picked, template, genCalls,
                   genResult, outcome>>

\* faulty variant: the target path is taken from the working directory
GenerateContextFromCwd ==
    [path |-> cwd, packagePath |-> packagePath,
     ipcServer |-> serverId, terminalId |-> terminalId]

\* the first argument of template.generate
GenerateContext ==
    [path |-> path, packagePath |-> packagePath,
     ipcServer |-> serverId, terminalId |-> terminalId]

\* The user selects the k-th choice: start calls its generate and awaits.
PickerSelect(k) ==
    /\ pc = "picking"
    /\ k \in 1..Len(templates)
    /\ picked' = "selected"
    /\ template' = templates[k]
    /\ genCalls' = Append(genCalls, [template |-> templates[k],
                                     context |-> GenerateContext,
                                     config |-> config,
                                     cwd |-> cwd])
    /\ genResult' = "pending"
    /\ pc' = "generating"
    /\ UNCHANGED <<fixed, cwd, startedCwd, chdirs, imports, loadOutcome,
                   templates, spinner, emitted, pickerCalls, outcome>>

\* faulty variant: "end" is emitted only after a generation
PickerCancelNoEnd ==
    /\ pc = "picking"
    /\ picked' = "cancelled"
    /\ pc' = "done"
    /\ outcome' = "ok"
    /\ UNCHANGED <<fixed, cwd, startedCwd, chdirs, imports, loadOutcome,
                   templates, spinner, emitted, pickerCalls, template,
                   genCalls, genResult>>

\* The user aborts the prompt: selectTemplate returns undefined, start
\* skips generate, emits "end" and returns.
PickerCancel ==
    /\ pc = "picking"
    /\ picked' = "cancelled"
    /\ emitted' = Append(emitted, "end")
    /\ pc' = "done"
    /\ outcome' = "ok"
    /\ UNCHANGED <<fixed, cwd, startedCwd, chdirs, imports, loadOutcome,
                   templates, spinner, pickerCalls, template, genCalls,
                   genResult>>

\* generate fulfils: start emits "end" and returns.
GenerateResolve ==
    /\ pc = "generating"
    /\ genResult' = "resolved"
    /\ emitted' = Append(emitted, "end")
    /\ pc' = "done"
    /\ outcome' = "ok"
    /\ UNCHANGED <<fixed, cwd, startedCwd, chdirs, imports, loadOutcome,
                   templates, spinner, pickerCalls, picked, template,
                   genCalls>>

\* faulty variant: the rejection is swallowed and the run ends as after a success
GenerateRejectCaught ==
    /\ pc = "generating"
    /\ genResult' = "rejected"
    /\ emitted' = Append(emitted, "end")
    /\ pc' = "done"
    /\ outcome' = "ok"
    /\ UNCHANGED <<fixed, cwd, startedCwd, chdirs, imports, loadOutcome,
                   templates, spinner, pickerCalls, picked, template,
                   genCalls>>

\* generate rejects: the await in start throws; neither start nor the
\* top-level function catches it, so "end" is not emitted and the run fails.
GenerateReject ==
    /\ pc = "generating"
    /\ genResult' = "rejected"
    /\ pc' = "done"
    /\ outcome' = "failed"
    /\ UNCHANGED <<fixed, cwd, startedCwd, chdirs, imports, loadOutcome,
                   templates, spinner, emitted, pickerCalls, picked,
                   template, genCalls>>

Next ==
    \/ SearchTemplatesBegin
    \/ GlobNotFound
    \/ GlobFound
    \/ \E i \in DOMAIN imports : ImportSettle(i)
    \/ LoadReturn
    \/ LoadThrow
    \/ StartNoTemplates
    \/ SelectTemplateCall
    \/ \E k \in 1..Len(templates) : PickerSelect(k)
    \/ PickerCancel
    \/ GenerateResolve
    \/ GenerateReject

Spec == Init /\ [][Next]_vars

----------------------------------------------------------------------------
(* Properties *)

TypeOK ==
    /\ pc \in {"start", "glob", "loading", "searched", "picking",
               "generating", "done"}
    /\ outcome \in {"running", "ok", "failed"}
    /\ loadOutcome \in {"none", "returned", "threw"}
    /\ picked \in {"none", "cancelled", "selected"}
    /\ genResult \in {"none", "pending", "resolved", "rejected"}
    /\ cwd \in Dirs
    /\ pc = "done" <=> outcome # "running"

Range(s) == {s[i] : i \in DOMAIN s}

\* the load step is over: loadTemplates was called and is no longer
\* waiting for the imports
LoadStepOver == Len(files) > 0 /\ pc \notin {"start", "glob", "loading"}

\* What the specification says one file contributes: the elements of an
\* exported array, the one exported template, nothing for null/undefined.
Contribution(f) ==
    CASE f.def.tag = "array" -> f.def.arr
      [] f.def.tag = "object" -> <<f.def.obj>>
      [] OTHER -> <<>>

\* The contributions of the files of fs whose import succeeds, file by
\* file in the order of fs.
RECURSIVE Contributions(_)
Contributions(fs) ==
    IF Len(fs) = 0 THEN <<>>
    ELSE LET last == fs[Len(fs)]
         IN  Contributions(SubSeq(fs, 1, Len(fs) - 1))
                 \o (IF last.imp = "ok" THEN Contribution(last) ELSE <<>>)

AllImportsSucceed == \A i \in DOMAIN files : files[i].imp = "ok"

\* C1: whatever subset of the matched files fails on import, loadTemplates
\* completes normally and returns exactly the templates of the files whose
\* import succeeded, in file order and then in-array order.
C1_PartialFailureReturnsRest ==
    LoadStepOver =>
        /\ loadOutcome = "returned"
        /\ templates = Contributions(files)

\* C2: however the load step ends, the working directory is then the one
\* recorded before the step began, and the restoring chdir was performed
\* exactly once.
C2_CwdRestoredOnEveryExit ==
    LoadStepOver =>
        /\ cwd = startedCwd
        /\ Len(chdirs) = 2
        /\ chdirs[2] = startedCwd

\* C3: a run calls generate at most once: exactly once when the picker
\* returned a template, on that template and with the context and config
\* the run was constructed with; not at all when nothing was found or the
\* user cancelled.
C3_AtMostOneGenerate ==
    /\ Len(genCalls) <= 1
    /\ picked = "selected" <=> Len(genCalls) = 1
    /\ Len(genCalls) = 1 =>
          /\ genCalls[1].template = template
          /\ template \in Range(templates)
          /\ genCalls[1].context = [path |-> path,
                                    packagePath |-> packagePath,
                                    ipcServer |-> serverId,
                                    terminalId |-> terminalId]
          /\ genCalls[1].config = config
    /\ (pc = "done" /\ templates = <<>>) => genCalls = <<>>

C3_Witness ==
    /\ picked = "selected"
    /\ Len(genCalls) = 1
    /\ Len(templates) >= 2
    /\ path # cwd0
    /\ pc = "done"

\* C4: when the user cancels the picker, generate is never called, "end" is
\* emitted (after the picker returned, not before) and the run completes
\* normally.
C4_CancelSkipsGenerate ==
    /\ pc = "picking" => "end" \notin Range(emitted)
    /\ picked = "cancelled" =>
          /\ genCalls = <<>>
          /\ genResult = "none"
          /\ emitted = <<"found", "end">>
          /\ pc = "done"
          /\ outcome = "ok"

C4_Witness == picked = "cancelled" /\ pc = "done" /\ Len(pickerCalls) = 1

\* C5: when generate rejects, nothing catches it: the run ends failed,
\* generate was called that once only, on the selected template.
C5_GenerateFailurePropagates ==
    genResult = "rejected" =>
        /\ pc = "done"
        /\ outcome = "failed"
        /\ Len(genCalls) = 1
        /\ genCalls[1].template = template

C5_Witness == genResult = "rejected" /\ Len(templates) >= 2

\* C6: when the glob matches no file, the template sequence is empty,
\* "notFound" is emitted and "found" is not, no import is issued, the
\* working directory is never changed and the run ends normally.
C6_NoFilesIsNotFound ==
    Len(files) = 0 =>
        /\ templates = <<>>
        /\ "found" \notin Range(emitted)
        /\ pc \in {"searched", "done"} => emitted = <<"notFound">>
        /\ imports = <<>>
        /\ chdirs = <<>>
        /\ cwd = cwd0
        /\ loadOutcome = "none"
        /\ outcome # "failed"
        /\ pc \notin {"loading", "picking", "generating"}

C6_Witness == Len(files) = 0 /\ pc = "done" /\ outcome = "ok"

\* C7: the picker is only ever invoked with a non-empty template sequence:
\* not when no file matches, not when the matched files contribute nothing.
C7_PickerNeverEmpty ==
    /\ \A i \in DOMAIN pickerCalls : Len(pickerCalls[i].choices) > 0
    /\ pc = "picking" => Len(templates) > 0
    /\ (pc = "done" /\ outcome = "ok" /\ templates = <<>>) => pickerCalls = <<>>

C7_Witness ==
    /\ Len(files) > 0
    /\ loadOutcome = "returned"
    /\ templates = <<>>
    /\ pc = "done"
    /\ pickerCalls = <<>>

\* C8: when every import succeeds, the loader returns the concatenation in
\* file order of the files' contributions: the N elements of an array in
\* array order, 1 entry for a single template, 0 for null/undefined;
\* templates of the same name are all kept.
C8_FlattenInOrder ==
    (LoadStepOver /\ AllImportsSucceed) =>
        /\ loadOutcome = "returned"
        /\ templates = Contributions(files)

C8_Witness ==
    /\ loadOutcome = "returned"
    /\ Len(files) = 2
    /\ files[1].def.tag = "array"
    /\ Len(files[1].def.arr) = 2
    /\ files[2].def.tag = "object"
    /\ templates = <<[name |-> "B"], [name |-> "A"], [name |-> "B"]>>

\* C9: every import is issued before any is awaited, and the loader leaves
\* the fan-out (to restore the working directory, return or fail) only
\* when every issued import has settled.
C9_WaitsForAllToSettle ==
    [][/\ (pc = "glob" /\ pc' = "loading") =>
             /\ DOMAIN imports' = DOMAIN files
             /\ \A i \in DOMAIN imports' : imports'[i] = "pending"
       /\ (pc = "loading" /\ pc' # "loading") =>
             \A i \in DOMAIN imports : imports[i] # "pending"]_vars

\* C10: whenever the picker is invoked or generate is called, the working
\* directory is the one the run started in.
C10_CwdDoesNotLeak ==
    /\ \A i \in DOMAIN pickerCalls : pickerCalls[i].cwd = cwd0
    /\ \A i \in DOMAIN genCalls : genCalls[i].cwd = cwd0
    /\ pc \in {"picking", "generating"} => cwd = cwd0

C10_Witness ==
    /\ Len(genCalls) = 1
    /\ packagePath # cwd0
    /\ chdirs = <<packagePath, cwd0>>
====
